---- MODULE Spec2Model ----
(***************************************************************************)
(* A model of the LC-3 virtual machine of src/main.c: the image loader,    *)
(* the start-up sequence of main, the fetch/decode/execute loop with its   *)
(* memory-mapped keyboard, the trap services, and the terminal handling    *)
(* (raw mode, restore, interrupt handler).                                 *)
(*                                                                         *)
(* Words are 16 bits wide and keep the program's own addresses (0x3000,    *)
(* 0xFE00, ...).  The 65536-cell memory array is zero-initialised static   *)
(* storage; it is held as the finite map of its non-zero cells, so that    *)
(* a cell that is absent from the map is a cell that holds 0.              *)
(***************************************************************************)
EXTENDS Integers, Sequences, FiniteSets, TLC

VARIABLES
    argv,          \* the command line, argv[0] included (1-based here: argv[1] is C's argv[0])
    pc,            \* position of main: "args","load","signal","tty","start","run","shutdown",
                   \*   or a final one: "exited","aborted","crashed"
    j,             \* loop index of the image-load loop of main (C's j, 0-based)
    memory,        \* uint16_t memory[MEMORY_MAX], as the map of its non-zero cells
    reg,           \* uint16_t reg[R_COUNT]
    running,       \* main's local `running`
    instr,         \* main's local `instr`: the word fetched by the last cycle
    steps,         \* number of cycles executed (bounded by MaxSteps)
    tio,           \* the terminal's current settings
    original_tio,  \* struct termios original_tio
    handler,       \* TRUE once signal(SIGINT, handle_interrupt) has run
    inbuf,         \* bytes of stdin that have arrived and were not read yet
    pending,       \* bytes of stdin that have not arrived yet
    eof,           \* TRUE once stdin is at end of input
    out,           \* the bytes written to stdout by the machine
    diag,          \* the start-up diagnostic printed by main, if any
    status,        \* the exit status, once pc = "exited"
    jsrRet,        \* history: what the JSR executed last stored in R7 and whether R7 still holds it
    call           \* a call of sign_extend made on its own: its arguments and its return value

vars == <<argv, pc, j, memory, reg, running, instr, steps, tio, original_tio,
          handler, inbuf, pending, eof, out, diag, status, jsrRet, call>>

---------------------------------------------------------------------------
(* Program constants.                                                      *)

MEMORY_MAX == 65536

R_R0 == 0
R_R7 == 7
R_PC == 8
R_COND == 9
R_COUNT == 10

FL_POS == 1
FL_ZRO == 2
FL_NEG == 4

OP_BR == 0
OP_ADD == 1
OP_LD == 2
OP_ST == 3
OP_JSR == 4
OP_AND == 5
OP_LDR == 6
OP_STR == 7
OP_RTI == 8
OP_NOT == 9
OP_LDI == 10
OP_STI == 11
OP_JMP == 12
OP_RES == 13
OP_LEA == 14
OP_TRAP == 15

TRAP_GETC == 32
TRAP_OUT == 33
TRAP_PUTS == 34
TRAP_IN == 35
TRAP_PUTSP == 36
TRAP_HALT == 37

\* 0xfe00 and 0xfe02
MR_KBSR == 65024
MR_KBDR == 65026

\* 0x3000
PC_START == 12288

\* getchar()'s EOF
EOF_INT == -1

---------------------------------------------------------------------------
(* Bounds of the model.                                                    *)

\* the fetch loop is followed for at most this many cycles
MaxSteps == 8

---------------------------------------------------------------------------
(* 16-bit arithmetic, as C computes it on uint16_t (operands promoted to   *)
(* int, the result truncated on assignment).                               *)

U16(x) == x % MEMORY_MAX

Shr(x, n) == x \div (2 ^ n)

RECURSIVE BitAnd(_, _)
BitAnd(a, b) ==
    IF a = 0 \/ b = 0 THEN 0
    ELSE (a % 2) * (b % 2) + 2 * BitAnd(a \div 2, b \div 2)

RECURSIVE BitOr(_, _)
BitOr(a, b) ==
    IF a = 0 THEN b
    ELSE IF b = 0 THEN a
    ELSE (IF a % 2 = 1 \/ b % 2 = 1 THEN 1 ELSE 0) + 2 * BitOr(a \div 2, b \div 2)

\* ~x on a uint16_t
BitNot16(x) == 65535 - x

\* a sign extension that fills in the bits above the field from bit 0
sign_extend_from_low_bit(num, bit_count) ==
    IF num % 2 = 1
    THEN U16(BitOr(num, 65535 * (2 ^ bit_count)))
    ELSE num

sign_extend(num, bit_count) ==
    IF Shr(num, bit_count - 1) % 2 = 1
    THEN U16(BitOr(num, 65535 * (2 ^ bit_count)))
    ELSE num

swap16(x) == U16(BitOr(x * 256, Shr(x, 8)))

---------------------------------------------------------------------------
(* The memory array.                                                       *)

ZeroMemory == << >>

Cell(mem, a) == IF a \in DOMAIN mem THEN mem[a] ELSE 0

\* memory[a] = v
Store(mem, a, v) ==
    IF v = 0
    THEN [x \in DOMAIN mem \ {a} |-> mem[x]]
    ELSE [x \in DOMAIN mem \cup {a} |-> IF x = a THEN v ELSE mem[x]]

---------------------------------------------------------------------------
(* The environment: the files on disk, the command lines, the keyboard.    *)

\* the two bytes of a 16-bit word as an image file holds them (big-endian)
BEWord(w) == <<w \div 256, w % 256>>

RECURSIVE BEBytes(_)
BEBytes(words) ==
    IF words = << >> THEN << >> ELSE BEWord(Head(words)) \o BEBytes(Tail(words))

\* an image file: the origin word, then the payload words
ObjFile(origin, words) == BEBytes(<<origin>> \o words)

\* two's-complement field of `bits` bits holding the signed offset n
Off(n, bits) == n % (2 ^ bits)

\* instruction words, by the bit layout the handlers of main decode
ADDr(dr, sr1, sr2) == OP_ADD * 4096 + dr * 512 + sr1 * 64 + sr2
ADDi(dr, sr1, imm) == OP_ADD * 4096 + dr * 512 + sr1 * 64 + 32 + Off(imm, 5)
ANDr(dr, sr1, sr2) == OP_AND * 4096 + dr * 512 + sr1 * 64 + sr2
ANDi(dr, sr1, imm) == OP_AND * 4096 + dr * 512 + sr1 * 64 + 32 + Off(imm, 5)
NOTr(dr, sr) == OP_NOT * 4096 + dr * 512 + sr * 64 + 63
BRc(cond, off) == OP_BR * 4096 + cond * 512 + Off(off, 9)
JMPr(base) == OP_JMP * 4096 + base * 64
JSRo(off) == OP_JSR * 4096 + 2048 + Off(off, 11)
JSRRr(base) == OP_JSR * 4096 + base * 64
LDo(dr, off) == OP_LD * 4096 + dr * 512 + Off(off, 9)
LDIo(dr, off) == OP_LDI * 4096 + dr * 512 + Off(off, 9)
LDRo(dr, base, off) == OP_LDR * 4096 + dr * 512 + base * 64 + Off(off, 6)
LEAo(dr, off) == OP_LEA * 4096 + dr * 512 + Off(off, 9)
STo(sr, off) == OP_ST * 4096 + sr * 512 + Off(off, 9)
STIo(sr, off) == OP_STI * 4096 + sr * 512 + Off(off, 9)
STRo(sr, base, off) == OP_STR * 4096 + sr * 512 + base * 64 + Off(off, 6)
TRAPv(vect) == OP_TRAP * 4096 + vect

\* The files that exist.  "./lc3" is the interpreter's own executable (an ELF
\* file: 7f 'E' 'L' 'F' 02 01 01 00 ...); every other file is an image.  All
\* files hold whole 16-bit words.
Files ==
    [ lc3_exe |-> <<127, 69, 76, 70, 2, 1, 1, 0>>,
      arith |-> ObjFile(PC_START,
          << LDo(0, 5), ADDi(0, 0, 1), ADDi(1, 0, -1), ADDr(2, 1, 1),
             NOTr(3, 2), TRAPv(TRAP_HALT), 65535 >>),
      logic |-> ObjFile(PC_START,
          << LEAo(0, -2), ANDi(1, 0, 15), ANDr(2, 0, 1), ANDi(0, 0, 0),
             NOTr(4, 0), TRAPv(TRAP_HALT) >>),
      mem |-> ObjFile(PC_START,
          << LEAo(1, 6), LDo(2, 6), STo(2, 6), STRo(2, 1, 3), LDRo(3, 1, 1),
             STIo(1, 1), TRAPv(TRAP_HALT), 16384, 32769 >>),
      poll |-> ObjFile(PC_START,
          << LDIo(0, 4), LDIo(1, 4), BRc(2, 1), NOTr(2, 1), TRAPv(TRAP_HALT),
             MR_KBSR, MR_KBDR >>),
      call |-> ObjFile(PC_START,
          << JSRo(3), LEAo(2, 3), JSRRr(2), TRAPv(TRAP_HALT), JMPr(7), JMPr(7) >>),
      clobber |-> ObjFile(PC_START,
          << JSRo(1), TRAPv(TRAP_HALT), TRAPv(TRAP_OUT), JMPr(7) >>),
      io |-> ObjFile(PC_START,
          << TRAPv(TRAP_GETC), TRAPv(TRAP_OUT), TRAPv(TRAP_IN), LEAo(0, 3),
             TRAPv(TRAP_PUTS), TRAPv(TRAP_PUTSP), TRAPv(TRAP_HALT), 26952, 33 >>),
      jmpkb |-> ObjFile(PC_START, << LDo(1, 1), JMPr(1), MR_KBSR >>),
      res |-> ObjFile(PC_START, << OP_RES * 4096 >>),
      badtrap |-> ObjFile(PC_START, << TRAPv(38), TRAPv(TRAP_HALT) >>),
      zero |-> ObjFile(0, << 4660 >>),
      high |-> ObjFile(65535, << 65, 66 >>),
      putsend |-> ObjFile(PC_START,
          << LDo(0, 2), TRAPv(TRAP_PUTS), TRAPv(TRAP_HALT), 65535 >>),
      branch |-> ObjFile(PC_START,
          << ADDi(0, 0, -1), BRc(7, 1), TRAPv(TRAP_HALT), BRc(3, 2), BRc(0, 3),
             BRc(4, -4) >>),
      wrap |-> ObjFile(PC_START, << LDo(1, 1), JMPr(1), 65535 >>),
      kbprog |-> ObjFile(MR_KBSR, << BRc(7, 1) >>),
      patch |-> ObjFile(PC_START + 1, << TRAPv(TRAP_HALT) >>) ]

\* paths that name no file that can be opened: "lc3" is the interpreter found
\* through PATH (argv[0] then names no file of the working directory)
NoFiles == {"lc3", "missing"}

ImagePaths == (DOMAIN Files \ {"lc3_exe"}) \cup {"missing"}

\* argv[0] followed by zero, one or two image paths
CommandLines ==
    { <<exe>> \o args :
        exe \in {"lc3_exe", "lc3"},
        args \in {<< >>} \cup {<<a>> : a \in ImagePaths}
                          \cup {<<a, b>> : a, b \in ImagePaths} }

\* the bytes typed on stdin during the run
Inputs == { << >>, <<65>>, <<200>>, <<65, 200>> }

\* the terminal's c_lflag bits ICANON and ECHO
CookedTio == [icanon |-> TRUE, echo |-> TRUE]
ZeroTio == [icanon |-> FALSE, echo |-> FALSE]

---------------------------------------------------------------------------
(* The image loader.                                                       *)

\* a uint16_t whose two bytes were stored by fread on the (little-endian) host
HostWord(b0, b1) == b0 + 256 * b1

\* fread(&origin, sizeof(origin), 1, fp); origin = swap16(origin)
ReadOrigin(bytes) == swap16(HostWord(bytes[1], bytes[2]))

\* a read limit that is the size of Memory whatever the origin
MaxRead_ignores_origin(origin) == MEMORY_MAX - 1

\* uint16_t max_read = MEMORY_MAX - origin
MaxRead(origin) == U16(MEMORY_MAX - origin)

\* the count fread(p, sizeof(uint16_t), max_read, fp) returns
FreadCount(bytes, max_read) ==
    LET avail == (Len(bytes) - 2) \div 2
    IN  IF avail < max_read THEN avail ELSE max_read

\* the fread into p and the swap loop: n words from byte offset 2 on
RECURSIVE LoadWords(_, _, _, _, _)
LoadWords(mem, p, bytes, i, n) ==
    IF i >= n THEN mem
    ELSE LoadWords(Store(mem, p + i,
                         swap16(HostWord(bytes[3 + 2 * i], bytes[4 + 2 * i]))),
                   p, bytes, i + 1, n)

read_image_file(mem, bytes) ==
    IF Len(bytes) < 2 THEN mem    \* neither fread stores a whole word
    ELSE LET origin == ReadOrigin(bytes)
             n == FreadCount(bytes, MaxRead(origin))
         IN  LoadWords(mem, origin, bytes, 0, n)

\* fopen(path, "rb") succeeds
CanOpen(path) == path \in DOMAIN Files

---------------------------------------------------------------------------
(* The machine.  The handlers are operators on a record of the state a     *)
(* cycle can touch: mem, reg, inbuf (stdin), eof, out (stdout), running,   *)
(* val (the value the last mem_read returned) and fault ("none", "abort"   *)
(* after abort(), "segv" after a crash).                                   *)

\* select() reports stdin readable: a byte is waiting, or the stream has ended
check_key(s) == s.inbuf # << >> \/ s.eof

\* the int getchar() returns; it blocks unless check_key(s)
GetcharValue(s) == IF s.inbuf # << >> THEN Head(s.inbuf) ELSE EOF_INT

\* stdin after that getchar()
GetcharRest(s) == IF s.inbuf # << >> THEN Tail(s.inbuf) ELSE s.inbuf

\* a read that polls the keyboard at the data address too
mem_read_polls_data(s, addr) ==
    LET polled ==
            IF addr \in {MR_KBSR, MR_KBDR}
            THEN IF check_key(s)
                 THEN [s EXCEPT !.mem = Store(Store(s.mem, MR_KBSR, 32768),
                                              MR_KBDR, U16(GetcharValue(s))),
                                !.inbuf = GetcharRest(s)]
                 ELSE [s EXCEPT !.mem = Store(s.mem, MR_KBSR, 0)]
            ELSE s
    IN  [polled EXCEPT !.val = Cell(polled.mem, addr)]

mem_read(s, addr) ==
    LET polled ==
            IF addr = MR_KBSR
            THEN IF check_key(s)
                 THEN [s EXCEPT !.mem = Store(Store(s.mem, MR_KBSR, 32768),
                                              MR_KBDR, U16(GetcharValue(s))),
                                !.inbuf = GetcharRest(s)]
                 ELSE [s EXCEPT !.mem = Store(s.mem, MR_KBSR, 0)]
            ELSE s
    IN  [polled EXCEPT !.val = Cell(polled.mem, addr)]

\* a write that spills into the next cell
mem_write_spills(s, addr, value) ==
    [s EXCEPT !.mem = Store(Store(s.mem, addr, value), U16(addr + 1), value)]

mem_write(s, addr, value) == [s EXCEPT !.mem = Store(s.mem, addr, value)]

\* a flag update that tests the sign with a shift by the full width
update_flags_no_sign(rg, r) ==
    IF rg[r] = 0 THEN [rg EXCEPT ![R_COND] = FL_ZRO]
    ELSE IF Shr(rg[r], 16) # 0 THEN [rg EXCEPT ![R_COND] = FL_NEG]
    ELSE [rg EXCEPT ![R_COND] = FL_POS]

\* a flag update that sets the new flag without clearing the old one
update_flags_accumulates(rg, r) ==
    IF rg[r] = 0 THEN [rg EXCEPT ![R_COND] = BitOr(rg[R_COND], FL_ZRO)]
    ELSE IF Shr(rg[r], 15) # 0 THEN [rg EXCEPT ![R_COND] = BitOr(rg[R_COND], FL_NEG)]
    ELSE [rg EXCEPT ![R_COND] = BitOr(rg[R_COND], FL_POS)]

update_flags(rg, r) ==
    IF rg[r] = 0 THEN [rg EXCEPT ![R_COND] = FL_ZRO]
    ELSE IF Shr(rg[r], 15) # 0 THEN [rg EXCEPT ![R_COND] = FL_NEG]
    ELSE [rg EXCEPT ![R_COND] = FL_POS]

\* operand fields of an instruction word
Field(ins, shift, mask) == BitAnd(Shr(ins, shift), mask)

\* an ADD whose immediate is not sign-extended
op_ADD_zero_extended(s, ins) ==
    LET dr == Field(ins, 9, 7)
        sr1 == Field(ins, 6, 7)
        imm_flag == Field(ins, 5, 1)
        sum == IF imm_flag # 0
               THEN s.reg[sr1] + BitAnd(ins, 31)
               ELSE s.reg[sr1] + s.reg[BitAnd(ins, 7)]
    IN  [s EXCEPT !.reg = update_flags([s.reg EXCEPT ![dr] = U16(sum)], dr)]

op_ADD(s, ins) ==
    LET dr == Field(ins, 9, 7)
        sr1 == Field(ins, 6, 7)
        imm_flag == Field(ins, 5, 1)
        sum == IF imm_flag # 0
               THEN s.reg[sr1] + sign_extend(BitAnd(ins, 31), 5)
               ELSE s.reg[sr1] + s.reg[BitAnd(ins, 7)]
    IN  [s EXCEPT !.reg = update_flags([s.reg EXCEPT ![dr] = U16(sum)], dr)]

op_AND(s, ins) ==
    LET dr == Field(ins, 9, 7)
        sr1 == Field(ins, 6, 7)
        imm_flag == Field(ins, 5, 1)
        res == IF imm_flag # 0
               THEN BitAnd(s.reg[sr1], sign_extend(BitAnd(ins, 31), 5))
               ELSE BitAnd(s.reg[sr1], s.reg[BitAnd(ins, 7)])
    IN  [s EXCEPT !.reg = update_flags([s.reg EXCEPT ![dr] = res], dr)]

op_NOT(s, ins) ==
    LET dr == Field(ins, 9, 7)
        sr == Field(ins, 6, 7)
    IN  [s EXCEPT !.reg = update_flags([s.reg EXCEPT ![dr] = BitNot16(s.reg[sr])], dr)]

\* a BR whose offset is not sign-extended
op_BR_offset_unsigned(s, ins) ==
    LET flags == Field(ins, 9, 7)
        pc_offset == BitAnd(ins, 511)
    IN  IF BitAnd(flags, s.reg[R_COND]) # 0
        THEN [s EXCEPT !.reg[R_PC] = U16(s.reg[R_PC] + pc_offset)]
        ELSE s

op_BR(s, ins) ==
    LET flags == Field(ins, 9, 7)
        pc_offset == sign_extend(BitAnd(ins, 511), 9)
    IN  IF BitAnd(flags, s.reg[R_COND]) # 0
        THEN [s EXCEPT !.reg[R_PC] = U16(s.reg[R_PC] + pc_offset)]
        ELSE s

op_JMP(s, ins) == [s EXCEPT !.reg[R_PC] = s.reg[Field(ins, 6, 7)]]

\* a JSR that links to its own address instead of the next one
op_JSR_links_self(s, ins) ==
    LET flag == Field(ins, 11, 1)
        linked == [s.reg EXCEPT ![R_R7] = U16(s.reg[R_PC] - 1)]
    IN  IF flag # 0
        THEN [s EXCEPT !.reg = [linked EXCEPT ![R_PC] =
                                   U16(linked[R_PC] + sign_extend(BitAnd(ins, 2047), 11))]]
        ELSE [s EXCEPT !.reg = [linked EXCEPT ![R_PC] = linked[Field(ins, 6, 7)]]]

op_JSR(s, ins) ==
    LET flag == Field(ins, 11, 1)
        linked == [s.reg EXCEPT ![R_R7] = s.reg[R_PC]]
    IN  IF flag # 0
        THEN [s EXCEPT !.reg = [linked EXCEPT ![R_PC] =
                                   U16(linked[R_PC] + sign_extend(BitAnd(ins, 2047), 11))]]
        ELSE [s EXCEPT !.reg = [linked EXCEPT ![R_PC] = linked[Field(ins, 6, 7)]]]

op_LD(s, ins) ==
    LET dr == Field(ins, 9, 7)
        pc_offset == sign_extend(BitAnd(ins, 511), 9)
        rd == mem_read(s, U16(s.reg[R_PC] + pc_offset))
    IN  [rd EXCEPT !.reg = update_flags([rd.reg EXCEPT ![dr] = rd.val], dr)]

op_LDI(s, ins) ==
    LET dr == Field(ins, 9, 7)
        pc_offset == sign_extend(BitAnd(ins, 511), 9)
        ptr == mem_read(s, U16(s.reg[R_PC] + pc_offset))
        rd == mem_read(ptr, ptr.val)
    IN  [rd EXCEPT !.reg = update_flags([rd.reg EXCEPT ![dr] = rd.val], dr)]

op_LDR(s, ins) ==
    LET offset == sign_extend(BitAnd(ins, 63), 6)
        baseR == Field(ins, 6, 7)
        dr == Field(ins, 9, 7)
        rd == mem_read(s, U16(s.reg[baseR] + offset))
    IN  [rd EXCEPT !.reg = update_flags([rd.reg EXCEPT ![dr] = rd.val], dr)]

op_LEA(s, ins) ==
    LET offset == sign_extend(BitAnd(ins, 511), 9)
        dr == Field(ins, 9, 7)
    IN  [s EXCEPT !.reg = update_flags([s.reg EXCEPT ![dr] = U16(s.reg[R_PC] + offset)], dr)]

op_ST(s, ins) ==
    LET pc_offset == sign_extend(BitAnd(ins, 511), 9)
        sr == Field(ins, 9, 7)
    IN  mem_write(s, U16(s.reg[R_PC] + pc_offset), s.reg[sr])

op_STI(s, ins) ==
    LET pc_offset == sign_extend(BitAnd(ins, 511), 9)
        sr == Field(ins, 9, 7)
        ptr == mem_read(s, U16(s.reg[R_PC] + pc_offset))
    IN  mem_write(ptr, ptr.val, ptr.reg[sr])

op_STR(s, ins) ==
    LET offset == sign_extend(BitAnd(ins, 63), 6)
        baseR == Field(ins, 6, 7)
        sr == Field(ins, 9, 7)
    IN  mem_write(s, U16(s.reg[baseR] + offset), s.reg[sr])

\* an illegal opcode that is skipped instead of aborting
op_fault_skipped(s, ins) == s

\* case OP_RES: case OP_RTI: default: abort()
op_fault(s, ins) == [s EXCEPT !.fault = "abort"]

---------------------------------------------------------------------------
(* The trap services (the inner switch of case OP_TRAP).                   *)

\* (unsigned char) of an int, as fputc writes it
Byte(x) == x % 256

\* `char c = x` on the build's signed char, then (uint16_t)c
CharToU16(x) == LET b == Byte(x) IN IF b >= 128 THEN U16(b - 256) ELSE b

\* "Enter a character: " and "HALT"
PromptText == <<69, 110, 116, 101, 114, 32, 97, 32, 99, 104, 97, 114, 97, 99,
                116, 101, 114, 58, 32>>
HaltText == <<72, 65, 76, 84>>

\* What a read past the end of the memory array can do (undefined behaviour):
\* find a zero word at once, find other words first, or crash.
UBOutcomes == {"stop", "more", "segv"}

\* the byte written for words read past the end of the array
StrayByte == 63

\* while (*c) { fputc((char)*c, stdout); ++c; } from memory + a:
\* the bytes written, and whether c ran past memory[MEMORY_MAX - 1]
RECURSIVE PutsScan(_, _, _)
PutsScan(mem, a, acc) ==
    IF a >= MEMORY_MAX THEN [chars |-> acc, oob |-> TRUE]
    ELSE IF Cell(mem, a) = 0 THEN [chars |-> acc, oob |-> FALSE]
    ELSE PutsScan(mem, a + 1, Append(acc, Byte(Cell(mem, a))))

\* the same walk for TRAP_PUTSP: low byte, then the high byte when it is not 0
RECURSIVE PutspScan(_, _, _)
PutspScan(mem, a, acc) ==
    IF a >= MEMORY_MAX THEN [chars |-> acc, oob |-> TRUE]
    ELSE IF Cell(mem, a) = 0 THEN [chars |-> acc, oob |-> FALSE]
    ELSE LET lo == Byte(Cell(mem, a))
             c2 == Byte(Shr(Cell(mem, a), 8))
         IN  PutspScan(mem, a + 1,
                       IF c2 # 0 THEN acc \o <<lo, c2>> ELSE Append(acc, lo))

\* the state after a string walk, `ub` deciding a walk that left the array
AfterWalk(s, scan, ub) ==
    IF ~scan.oob THEN [s EXCEPT !.out = s.out \o scan.chars]
    ELSE IF ub = "segv" THEN [s EXCEPT !.out = s.out \o scan.chars, !.fault = "segv"]
    ELSE IF ub = "more" THEN [s EXCEPT !.out = s.out \o scan.chars \o <<StrayByte>>]
    ELSE [s EXCEPT !.out = s.out \o scan.chars]

trap_GETC(s) ==
    [s EXCEPT !.reg = update_flags([s.reg EXCEPT ![R_R0] = U16(GetcharValue(s))], R_R0),
              !.inbuf = GetcharRest(s)]

trap_OUT(s) == [s EXCEPT !.out = Append(s.out, Byte(s.reg[R_R0]))]

trap_PUTS(s, ub) == AfterWalk(s, PutsScan(s.mem, s.reg[R_R0], << >>), ub)

trap_IN(s) ==
    LET c == GetcharValue(s)
    IN  [s EXCEPT !.reg = update_flags([s.reg EXCEPT ![R_R0] = CharToU16(c)], R_R0),
                  !.inbuf = GetcharRest(s),
                  !.out = s.out \o PromptText \o <<Byte(c)>>]

trap_PUTSP(s, ub) == AfterWalk(s, PutspScan(s.mem, s.reg[R_R0], << >>), ub)

\* a HALT that prints its notice but leaves the loop running
trap_HALT_keeps_running(s) == [s EXCEPT !.out = s.out \o HaltText]

trap_HALT(s) == [s EXCEPT !.out = s.out \o HaltText, !.running = FALSE]

TrapVector(ins) == BitAnd(ins, 255)

TrapVectors == {TRAP_GETC, TRAP_OUT, TRAP_PUTS, TRAP_IN, TRAP_PUTSP, TRAP_HALT}

\* the trap blocks in getchar() until input or end of input
TrapBlocks(s, ins) == TrapVector(ins) \in {TRAP_GETC, TRAP_IN} /\ ~check_key(s)

op_TRAP(s, ins, ub) ==
    LET t == [s EXCEPT !.reg[R_R7] = s.reg[R_PC]]
        v == TrapVector(ins)
    IN  CASE v = TRAP_GETC -> trap_GETC(t)
          [] v = TRAP_OUT -> trap_OUT(t)
          [] v = TRAP_PUTS -> trap_PUTS(t, ub)
          [] v = TRAP_IN -> trap_IN(t)
          [] v = TRAP_PUTSP -> trap_PUTSP(t, ub)
          [] v = TRAP_HALT -> trap_HALT(t)
          [] OTHER -> t

\* uint16_t op = (instr >> 12)
Opcode(ins) == Shr(ins, 12)

\* switch (op)
Execute(s, ins, ub) ==
    LET op == Opcode(ins)
    IN  CASE op = OP_ADD -> op_ADD(s, ins)
          [] op = OP_AND -> op_AND(s, ins)
          [] op = OP_NOT -> op_NOT(s, ins)
          [] op = OP_BR -> op_BR(s, ins)
          [] op = OP_JMP -> op_JMP(s, ins)
          [] op = OP_JSR -> op_JSR(s, ins)
          [] op = OP_LD -> op_LD(s, ins)
          [] op = OP_LDI -> op_LDI(s, ins)
          [] op = OP_LDR -> op_LDR(s, ins)
          [] op = OP_LEA -> op_LEA(s, ins)
          [] op = OP_ST -> op_ST(s, ins)
          [] op = OP_STI -> op_STI(s, ins)
          [] op = OP_STR -> op_STR(s, ins)
          [] op = OP_TRAP -> op_TRAP(s, ins, ub)
          [] OTHER -> op_fault(s, ins)

\* the machine as the variables hold it
Machine ==
    [mem |-> memory, reg |-> reg, inbuf |-> inbuf, eof |-> eof, out |-> out,
     running |-> running, val |-> 0, fault |-> "none"]

\* uint16_t instr = mem_read(reg[R_PC]++): the machine after the fetch, val the word
Fetch(s) == mem_read([s EXCEPT !.reg[R_PC] = U16(s.reg[R_PC] + 1)], s.reg[R_PC])

\* one pass of the loop body from machine s
Cycle(s, ub) == LET f == Fetch(s) IN Execute(f, f.val, ub)

---------------------------------------------------------------------------
(* The process: main, from its first line to the end of the process.       *)

\* the status of a process killed by abort() (SIGABRT) or by a crash (SIGSEGV),
\* as a shell reports it
AbortStatus == 134
CrashStatus == 139

NoDiag == [kind |-> "none", path |-> ""]

NoLink == [ret |-> -1, intact |-> FALSE]

\* no call of sign_extend on its own is under way
NoCall == [num |-> 0, bit_count |-> 0, ret |-> 0, returned |-> FALSE]

Ended == pc \in {"exited", "aborted", "crashed"}

Init ==
    /\ argv \in CommandLines
    /\ pending \in Inputs
    /\ pc = "args"
    /\ j = 0
    /\ memory = ZeroMemory
    /\ reg = [r \in 0 .. R_COUNT - 1 |-> 0]
    /\ running = FALSE
    /\ instr = 0
    /\ steps = 0
    /\ tio = CookedTio
    /\ original_tio = ZeroTio
    /\ handler = FALSE
    /\ inbuf = << >>
    /\ eof = FALSE
    /\ out = << >>
    /\ diag = NoDiag
    /\ status = 0
    /\ jsrRet = NoLink
    /\ call = NoCall

\* if (argc < 2) { printf usage; exit(2); }
CheckArgs ==
    /\ pc = "args"
    /\ IF Len(argv) < 2
       THEN /\ diag' = [kind |-> "usage", path |-> argv[1]]
            /\ pc' = "exited"
            /\ status' = 2
       ELSE /\ pc' = "load"
            /\ UNCHANGED <<diag, status>>
    /\ j' = 0
    /\ UNCHANGED <<argv, memory, reg, running, instr, steps, tio, original_tio,
                   handler, inbuf, pending, eof, out, jsrRet, call>>

\* one pass of: for (int j = 0; j < argc; j++) if (!read_image(argv[j])) {...; exit(1);}
LoadImage ==
    /\ pc = "load"
    /\ j < Len(argv)
    /\ LET path == argv[j + 1]
       IN  IF CanOpen(path)
           THEN /\ memory' = read_image_file(memory, Files[path])
                /\ j' = j + 1
                /\ pc' = IF j + 1 < Len(argv) THEN "load" ELSE "signal"
                /\ UNCHANGED <<diag, status>>
           ELSE /\ diag' = [kind |-> "load", path |-> path]
                /\ pc' = "exited"
                /\ status' = 1
                /\ UNCHANGED <<memory, j>>
    /\ UNCHANGED <<argv, reg, running, instr, steps, tio, original_tio,
                   handler, inbuf, pending, eof, out, jsrRet, call>>

\* signal(SIGINT, handle_interrupt)
InstallSignal ==
    /\ pc = "signal"
    /\ handler' = TRUE
    /\ pc' = "tty"
    /\ UNCHANGED <<argv, j, memory, reg, running, instr, steps, tio, original_tio,
                   inbuf, pending, eof, out, diag, status, jsrRet, call>>

\* disable_input_buffering()
DisableInputBuffering ==
    /\ pc = "tty"
    /\ original_tio' = tio
    /\ tio' = [tio EXCEPT !.icanon = FALSE, !.echo = FALSE]
    /\ pc' = "start"
    /\ UNCHANGED <<argv, j, memory, reg, running, instr, steps, handler,
                   inbuf, pending, eof, out, diag, status, jsrRet, call>>

\* reg[R_COND] = FL_ZRO; reg[R_PC] = PC_START; int running = 1
StartRun ==
    /\ pc = "start"
    /\ reg' = [reg EXCEPT ![R_COND] = FL_ZRO, ![R_PC] = PC_START]
    /\ running' = TRUE
    /\ pc' = "run"
    /\ UNCHANGED <<argv, j, memory, instr, steps, tio, original_tio, handler,
                   inbuf, pending, eof, out, diag, status, jsrRet, call>>

\* the instruction writes R7 (other than JSR's own link)
WritesR7(ins) ==
    \/ Opcode(ins) = OP_TRAP
    \/ /\ Opcode(ins) \in {OP_ADD, OP_AND, OP_NOT, OP_LD, OP_LDI, OP_LDR, OP_LEA}
       /\ Field(ins, 9, 7) = R_R7

\* the record of the last subroutine call: the address after the JSR, and
\* whether an instruction has written R7 since
NextLink(ins, at) ==
    IF Opcode(ins) = OP_JSR THEN [ret |-> U16(at + 1), intact |-> TRUE]
    ELSE IF WritesR7(ins) THEN [jsrRet EXCEPT !.intact = FALSE]
    ELSE jsrRet

\* the variables after a cycle that fetched ins and left the machine as s
Commit(s, ins) ==
    /\ memory' = s.mem
    /\ reg' = s.reg
    /\ inbuf' = s.inbuf
    /\ out' = s.out
    /\ running' = s.running
    /\ instr' = ins
    /\ steps' = steps + 1
    /\ pc' = IF s.fault = "abort" THEN "aborted"
             ELSE IF s.fault = "segv" THEN "crashed"
             ELSE IF s.running THEN "run" ELSE "shutdown"
    /\ status' = IF s.fault = "abort" THEN AbortStatus
                 ELSE IF s.fault = "segv" THEN CrashStatus ELSE status
    /\ jsrRet' = NextLink(ins, reg[R_PC])
    /\ UNCHANGED <<argv, j, tio, original_tio, handler, pending, eof, diag, call>>

\* while (running) is entered once more
Looping == pc = "run" /\ running /\ steps < MaxSteps

\* a cycle whose instruction has opcode opc (not TRAP)
Step(opc) ==
    /\ Looping
    /\ LET f == Fetch(Machine)
       IN  /\ Opcode(f.val) = opc
           /\ Commit(Execute(f, f.val, "stop"), f.val)

\* a cycle whose instruction is TRAP with its vector in vs
TrapStep(vs) ==
    /\ Looping
    /\ LET f == Fetch(Machine)
       IN  /\ Opcode(f.val) = OP_TRAP
           /\ TrapVector(f.val) \in vs
           /\ ~TrapBlocks(f, f.val)
           /\ \E ub \in UBOutcomes : Commit(Execute(f, f.val, ub), f.val)

ExecADD == Step(OP_ADD)
ExecAND == Step(OP_AND)
ExecNOT == Step(OP_NOT)
ExecBR == Step(OP_BR)
ExecJMP == Step(OP_JMP)
ExecJSR == Step(OP_JSR)
ExecLD == Step(OP_LD)
ExecLDI == Step(OP_LDI)
ExecLDR == Step(OP_LDR)
ExecLEA == Step(OP_LEA)
ExecST == Step(OP_ST)
ExecSTI == Step(OP_STI)
ExecSTR == Step(OP_STR)
ExecRTI == Step(OP_RTI)
ExecRES == Step(OP_RES)
TrapGETC == TrapStep({TRAP_GETC})
TrapOUT == TrapStep({TRAP_OUT})
TrapPUTS == TrapStep({TRAP_PUTS})
TrapIN == TrapStep({TRAP_IN})
TrapPUTSP == TrapStep({TRAP_PUTSP})
TrapHALT == TrapStep({TRAP_HALT})

\* a TRAP whose vector matches no case of the inner switch
TrapOther == TrapStep((0 .. 255) \ TrapVectors)

\* the loop has ended: shutdown(), then main returns
Shutdown ==
    /\ pc = "shutdown"
    /\ tio' = original_tio
    /\ pc' = "exited"
    /\ status' = 0
    /\ UNCHANGED <<argv, j, memory, reg, running, instr, steps, original_tio,
                   handler, inbuf, pending, eof, out, diag, jsrRet, call>>

\* SIGINT is delivered: handle_interrupt runs shutdown(), printf("\n"), exit(-2)
HandleInterrupt ==
    /\ handler
    /\ ~Ended
    /\ tio' = original_tio
    /\ out' = Append(out, 10)
    /\ pc' = "exited"
    /\ status' = -2
    /\ UNCHANGED <<argv, j, memory, reg, running, instr, steps, original_tio,
                   handler, inbuf, pending, eof, diag, jsrRet, call>>

\* A key is typed.  Input typed before the loop starts is read by nothing
\* earlier, so it is let arrive from the start of the loop on.
KeyArrives ==
    /\ pc = "run"
    /\ pending # << >>
    /\ inbuf' = Append(inbuf, Head(pending))
    /\ pending' = Tail(pending)
    /\ UNCHANGED <<argv, pc, j, memory, reg, running, instr, steps, tio,
                   original_tio, handler, eof, out, diag, status, jsrRet, call>>

\* stdin reaches its end (a closed pipe, ^D)
EndOfInput ==
    /\ pc = "run"
    /\ pending = << >>
    /\ ~eof
    /\ eof' = TRUE
    /\ UNCHANGED <<argv, pc, j, memory, reg, running, instr, steps, tio,
                   original_tio, handler, inbuf, pending, out, diag, status, jsrRet, call>>

Next ==
    \/ CheckArgs \/ LoadImage \/ InstallSignal \/ DisableInputBuffering \/ StartRun
    \/ ExecADD \/ ExecAND \/ ExecNOT \/ ExecBR \/ ExecJMP \/ ExecJSR
    \/ ExecLD \/ ExecLDI \/ ExecLDR \/ ExecLEA \/ ExecST \/ ExecSTI \/ ExecSTR
    \/ ExecRTI \/ ExecRES
    \/ TrapGETC \/ TrapOUT \/ TrapPUTS \/ TrapIN \/ TrapPUTSP \/ TrapHALT \/ TrapOther
    \/ Shutdown \/ HandleInterrupt \/ KeyArrives \/ EndOfInput

Spec == Init /\ [][Next]_vars

\* the scheduling of the process: main keeps running while it can take a step
FairSpec == Spec /\ WF_vars(Shutdown)

---------------------------------------------------------------------------
(* sign_extend on its own: one call, with a field of one of the widths the *)
(* handlers pass (imm5, offset6, PCoffset9, PCoffset11) and every value a   *)
(* field of that width can hold.                                            *)

FieldWidths == {5, 6, 9, 11}

SxInit ==
    /\ \E n \in FieldWidths : \E f \in 0 .. (2 ^ n) - 1 :
          call = [num |-> f, bit_count |-> n, ret |-> 0, returned |-> FALSE]
    /\ argv = <<"lc3_exe">>
    /\ pending = << >>
    /\ pc = "sign_extend"
    /\ j = 0
    /\ memory = ZeroMemory
    /\ reg = [r \in 0 .. R_COUNT - 1 |-> 0]
    /\ running = FALSE
    /\ instr = 0
    /\ steps = 0
    /\ tio = CookedTio
    /\ original_tio = ZeroTio
    /\ handler = FALSE
    /\ inbuf = << >>
    /\ eof = FALSE
    /\ out = << >>
    /\ diag = NoDiag
    /\ status = 0
    /\ jsrRet = NoLink

\* return sign_extend(num, bit_count)
CallSignExtend ==
    /\ pc = "sign_extend"
    /\ ~call.returned
    /\ call' = [call EXCEPT !.ret = sign_extend(call.num, call.bit_count),
                            !.returned = TRUE]
    /\ UNCHANGED <<argv, pc, j, memory, reg, running, instr, steps, tio, original_tio,
                   handler, inbuf, pending, eof, out, diag, status, jsrRet>>

SxNext == CallSignExtend

SxSpec == SxInit /\ [][SxNext]_vars

---------------------------------------------------------------------------
(* Vocabulary of the properties.                                           *)

\* the 16-bit word two bytes of an image file spell, big-endian
FileWord(bytes, k) == bytes[2 * k + 1] * 256 + bytes[2 * k + 2]

\* the number of payload words of an image file
PayloadLen(bytes) == (Len(bytes) - 2) \div 2

\* the image paths given on the command line (argv without the program name)
GivenPaths == SubSeq(argv, 2, Len(argv))

\* the loader applied to the files of `paths`, in order, from memory mem
RECURSIVE LoadAll(_, _)
LoadAll(mem, paths) ==
    IF paths = << >> THEN mem
    ELSE LoadAll(read_image_file(mem, Files[Head(paths)]), Tail(paths))

\* the flag that the sign of the 16-bit value v calls for
FlagOf(v) == IF v = 0 THEN FL_ZRO ELSE IF v >= 32768 THEN FL_NEG ELSE FL_POS

\* the destination-register field, bits 11:9
DrOf(ins) == (ins \div 512) % 8

\* the base/source-1 register field, bits 8:6
Sr1Of(ins) == (ins \div 64) % 8

\* a cycle has run and `instr` is the instruction it executed
Executed(opc) == steps > 0 /\ instr \div 4096 = opc

\* this step is a cycle of the fetch loop
CycleStep == steps' = steps + 1

IsHalt(ins) == ins \div 4096 = OP_TRAP /\ ins % 256 = TRAP_HALT

\* the loop was left through TRAP HALT
Halted == steps > 0 /\ ~running

---------------------------------------------------------------------------
(* C1: after read_image_file has loaded an image with origin O and payload *)
(* w[0..k-1], Memory[O+i] = w[i] for every i < min(k, 65536 - O), for every *)
(* origin, O = 0 included.  Stated of the image loaded last.               *)
C1_PayloadAtOrigin ==
    (pc \in {"load", "signal"} /\ j >= 1 /\ CanOpen(argv[j])) =>
        LET bytes == Files[argv[j]]
            O == FileWord(bytes, 0)
            k == PayloadLen(bytes)
            n == IF k < MEMORY_MAX - O THEN k ELSE MEMORY_MAX - O
        IN  \A i \in 0 .. n - 1 : Cell(memory, O + i) = FileWord(bytes, i + 1)

(* C2: when execution starts, Memory is the loader applied to the given    *)
(* image paths, in order, over an all-zero Memory, and to nothing else.     *)
C2_MemoryIsGivenImages ==
    (pc = "run" /\ steps = 0) => memory = LoadAll(ZeroMemory, GivenPaths)

(* C3: with an image path given, start-up fails with status 1 only when a  *)
(* given image path cannot be opened, and then names that path, executes   *)
(* nothing and leaves the terminal alone; and execution starts Running     *)
(* with PC = 0x3000 and flag Zero.                                          *)
C3_LoadFailure ==
    /\ (pc = "exited" /\ status = 1) =>
          /\ \E i \in 2 .. Len(argv) : ~CanOpen(argv[i]) /\ diag.path = argv[i]
          /\ steps = 0
          /\ tio = CookedTio
    /\ (pc = "run" /\ steps = 0) =>
          running /\ reg[R_PC] = PC_START /\ reg[R_COND] = FL_ZRO

(* C4: TRAP HALT ends the loop; after the HALT cycle nothing is fetched,   *)
(* no register and no memory cell changes, the terminal is restored, and   *)
(* the process exits, with status 0 (an interrupt delivered before main    *)
(* returns is the handler's exit instead).                                  *)
C4_HaltIsTerminal ==
    /\ []((steps > 0 /\ IsHalt(instr)) => (~running /\ pc \in {"shutdown", "exited"}))
    /\ [][Halted => (reg' = reg /\ memory' = memory /\ instr' = instr /\ steps' = steps)]_vars
    /\ [][(Halted /\ pc # "exited" /\ pc' = "exited")
            => (status' = -2 \/ (status' = 0 /\ out' = out))]_vars
    /\ []((Halted /\ pc = "exited") => tio = CookedTio)
    /\ (Halted ~> pc = "exited")

C4_Witness == Halted /\ pc = "exited" /\ status = 0 /\ tio = CookedTio

(* C5 as claimed: a word with opcode 8 or 13 aborts the run in that cycle *)
(* with no register write, no memory write and no output; every other     *)
(* opcode is dispatched and never aborts.                                   *)
C5_FaultWritesNothing ==
    /\ [][(CycleStep /\ pc' = "aborted")
            => /\ \A r \in (R_R0 .. R_R7) \cup {R_COND} : reg'[r] = reg[r]
               /\ memory' = memory
               /\ out' = out]_vars
    /\ []((steps > 0 /\ pc # "run" /\ instr \div 4096 \in {OP_RTI, OP_RES}) => pc = "aborted")
    /\ [](pc = "aborted" => instr \div 4096 \in {OP_RTI, OP_RES})

(* C5, amended: a fetched word with opcode 8 or 13 aborts the run in that  *)
(* cycle; the cycle writes no general register, no flag and no output, and *)
(* the only changes are those of the fetch itself: PC is advanced by one,   *)
(* and a fetch at 0xFE00 polls the keyboard, which may change the status    *)
(* and data cells.  Every other opcode is dispatched and never aborts.      *)
C5_FaultWritesOnlyFetch ==
    /\ [][(CycleStep /\ pc' = "aborted")
            => /\ \A r \in (R_R0 .. R_R7) \cup {R_COND} : reg'[r] = reg[r]
               /\ reg'[R_PC] = (reg[R_PC] + 1) % MEMORY_MAX
               /\ out' = out
               /\ reg[R_PC] # MR_KBSR => memory' = memory
               /\ \A a \in (DOMAIN memory \cup DOMAIN memory') \ {MR_KBSR, MR_KBDR} :
                      Cell(memory', a) = Cell(memory, a)]_vars
    /\ [][(CycleStep /\ instr' \div 4096 \in {OP_RTI, OP_RES}) => pc' = "aborted"]_vars
    /\ [](pc = "aborted" => instr \div 4096 \in {OP_RTI, OP_RES})

C5_Witness ==
    pc = "aborted" /\ instr \div 4096 = OP_RTI /\ Cell(memory, MR_KBSR) = 32768

(* C6: after ADD, AND, NOT, LD, LDI, LDR or LEA the condition flag is Zero *)
(* if reg[dr] is 0, Negative if its bit 15 is set, Positive otherwise.      *)
C6_FlagFollowsDr ==
    (steps > 0 /\ instr \div 4096 \in {OP_ADD, OP_AND, OP_NOT, OP_LD, OP_LDI, OP_LDR, OP_LEA})
        => reg[R_COND] = FlagOf(reg[DrOf(instr)])

C6_Witness == Executed(OP_LDI) /\ reg[DrOf(instr)] = 32768 /\ reg[R_COND] = FL_NEG

\* operand 2 of an ADD word, read from registers rg
AddOperand2(ins, rg) ==
    IF (ins \div 32) % 2 = 1
    THEN LET imm == ins % 32 IN IF imm >= 16 THEN imm - 32 ELSE imm
    ELSE rg[ins % 8]

(* C7: ADD leaves reg[dr] = (reg[sr1] + operand2) mod 65536, operand2 the  *)
(* sign-extended 5-bit immediate when bit 5 is set and reg[bits 2:0]       *)
(* otherwise; 0xFFFF + 1 gives 0 with flag Zero, 0 + (-1) gives 0xFFFF     *)
(* with flag Negative.                                                      *)
C7_AddWraps ==
    [][(CycleStep /\ instr' \div 4096 = OP_ADD)
         => LET sum == (reg[Sr1Of(instr')] + AddOperand2(instr', reg)) % MEMORY_MAX
            IN  /\ reg'[DrOf(instr')] = sum
                /\ (reg[Sr1Of(instr')] = 65535 /\ AddOperand2(instr', reg) = 1)
                      => (reg'[DrOf(instr')] = 0 /\ reg'[R_COND] = FL_ZRO)
                /\ (reg[Sr1Of(instr')] = 0 /\ AddOperand2(instr', reg) = -1)
                      => (reg'[DrOf(instr')] = 65535 /\ reg'[R_COND] = FL_NEG)]_vars

C7_Witness ==
    /\ Executed(OP_ADD) /\ instr = ADDi(1, 0, -1)
    /\ reg[0] = 0 /\ reg[1] = 65535 /\ reg[R_COND] = FL_NEG

\* this step executes JMP R7
JmpR7Step == CycleStep /\ instr' \div 4096 = OP_JMP /\ Sr1Of(instr') = R_R7

(* C8 as claimed: once a JSR at address A has been executed, a JMP R7      *)
(* executed later leaves PC = A + 1.                                        *)
C8_ReturnAfterAnyJsr ==
    [][(JmpR7Step /\ jsrRet.ret # -1) => reg'[R_PC] = jsrRet.ret]_vars

(* C8, amended: once a JSR at address A has been executed, a JMP R7        *)
(* executed later leaves PC = A + 1 (mod 65536) provided no instruction    *)
(* executed in between has written R7 (no TRAP, no other JSR, no           *)
(* instruction whose destination register is R7).                           *)
C8_ReturnWhenR7Kept ==
    [][(JmpR7Step /\ jsrRet.intact) => reg'[R_PC] = jsrRet.ret]_vars

C8_Witness ==
    /\ Executed(OP_JMP) /\ Sr1Of(instr) = R_R7
    /\ jsrRet.intact /\ reg[R_PC] = jsrRet.ret /\ jsrRet.ret = PC_START + 3

\* the machine had the next key already been typed
KeyTyped(s) == [s EXCEPT !.inbuf = Append(s.inbuf, Head(pending))]

\* what a run shows of a machine: memory, registers, output
Visible(s) == <<s.mem, s.reg, s.out, s.running, s.fault>>

\* the next cycle is not waiting in getchar()
CycleRuns(s) == LET f == Fetch(s) IN ~(f.val \div 4096 = OP_TRAP /\ TrapBlocks(f, f.val))

\* the next cycle of the machine reads the keyboard-status address: by its
\* fetch, or by the operand or pointer read of LD, LDI, LDR or STI
ReadsStatus ==
    LET A == reg[R_PC]
        ins == IF A = MR_KBSR THEN 0 ELSE Cell(memory, A)
        op == ins \div 4096
        off9 == IF ins % 512 >= 256 THEN (ins % 512) - 512 ELSE ins % 512
        off6 == IF ins % 64 >= 32 THEN (ins % 64) - 64 ELSE ins % 64
        pcrel == (A + 1 + off9) % MEMORY_MAX
    IN  \/ A = MR_KBSR
        \/ op \in {OP_LD, OP_LDI, OP_STI} /\ pcrel = MR_KBSR
        \/ op = OP_LDI /\ Cell(memory, pcrel) = MR_KBSR
        \/ op = OP_LDR /\ (reg[Sr1Of(ins)] + off6) % MEMORY_MAX = MR_KBSR

C10_TerminalRestored ==
    (Ended /\ original_tio = CookedTio) => tio = CookedTio

---------------------------------------------------------------------------
\* this step is handle_interrupt running to its exit(-2)
InterruptStep == pc # "exited" /\ pc' = "exited" /\ status' = -2

(* C11: whenever the interrupt handler runs, at any point after it has been *)
(* installed, it leaves the terminal with the settings it had when the      *)
(* process started, and the process exits with status -2 without executing  *)
(* another instruction.                                                      *)
C11_InterruptRestoresStart ==
    /\ [][InterruptStep => (handler /\ tio' = CookedTio /\ steps' = steps)]_vars
    /\ [][pc = "exited" => (steps' = steps /\ status' = status /\ tio' = tio)]_vars

---------------------------------------------------------------------------
\* bit n-1 of an n-bit field
TopBit(f, n) == (f \div (2 ^ (n - 1))) % 2

(* C12: sign_extend(field, n), for n in {5, 6, 9, 11} and every n-bit field *)
(* value, is (field - 2^n) mod 65536 when bit n-1 of the field is 1, and    *)
(* the field unchanged when bit n-1 is 0.                                   *)
C12_SignExtend ==
    call.returned =>
        /\ call.bit_count \in FieldWidths
        /\ call.num \in 0 .. (2 ^ call.bit_count) - 1
        /\ IF TopBit(call.num, call.bit_count) = 1
           THEN call.ret = (call.num - 2 ^ call.bit_count) % MEMORY_MAX
           ELSE call.ret = call.num

C12_Witness ==
    call.returned /\ call.bit_count = 11 /\ call.num = 1024 /\ call.ret = 64512

---------------------------------------------------------------------------
\* addresses a read is tried at: both ends of Memory, the start address, the
\* keyboard cells and their neighbours, and the current PC
ProbeAddresses ==
    {0, PC_START, MR_KBSR - 1, MR_KBSR, MR_KBSR + 1, MR_KBDR, MEMORY_MAX - 1, reg[R_PC]}

\* a read of address a from machine s changes no cell and consumes no input
ReadIsPure(s, a) ==
    LET rd == mem_read(s, a)
    IN  rd.mem = s.mem /\ rd.inbuf = s.inbuf /\ rd.val = Cell(s.mem, a)

\* a read of 0xFE00 from machine s polls: with a byte pending, status becomes
\* 0x8000 and data the byte (0..255), which is consumed; with none, status
\* becomes 0 and data and input stay; no other cell changes
ReadPolls(s) ==
    LET rd == mem_read(s, MR_KBSR)
    IN  /\ IF s.inbuf # << >>
           THEN /\ Cell(rd.mem, MR_KBSR) = 32768
                /\ Cell(rd.mem, MR_KBDR) = Head(s.inbuf)
                /\ Cell(rd.mem, MR_KBDR) \in 0 .. 255
                /\ rd.inbuf = Tail(s.inbuf)
           ELSE /\ Cell(rd.mem, MR_KBSR) = 0
                /\ Cell(rd.mem, MR_KBDR) = Cell(s.mem, MR_KBDR)
                /\ rd.inbuf = s.inbuf
        /\ rd.val = Cell(rd.mem, MR_KBSR)
        /\ \A a \in (DOMAIN s.mem \cup DOMAIN rd.mem) \ {MR_KBSR, MR_KBDR} :
               Cell(rd.mem, a) = Cell(s.mem, a)

(* C13: a Memory read at 0xFE00 (an instruction fetch there included) polls *)
(* for input: with input available the status cell becomes 0x8000 and the   *)
(* data cell 0xFE02 the pending byte, a value in 0..255; with none the      *)
(* status cell becomes 0 and the data cell is unchanged; a read at any      *)
(* other address changes no cell and consumes no input.  Stated of a read   *)
(* made in any state of the run, and of the cycles that fetch at 0xFE00.    *)
C13_StatusReadPolls ==
    /\ [](pc = "run" =>
            /\ ReadPolls(Machine)
            /\ \A a \in ProbeAddresses \ {MR_KBSR} : ReadIsPure(Machine, a))
    /\ [][(CycleStep /\ reg[R_PC] = MR_KBSR) =>
            IF inbuf # << >>
            THEN /\ Cell(memory', MR_KBSR) = 32768
                 /\ Cell(memory', MR_KBDR) = Head(inbuf)
                 /\ inbuf' = Tail(inbuf)
            ELSE /\ Cell(memory', MR_KBSR) = 0
                 /\ Cell(memory', MR_KBDR) = Cell(memory, MR_KBDR)
                 /\ inbuf' = inbuf]_vars

---------------------------------------------------------------------------
\* the word is a TRAP with vector v
IsTrap(ins, v) == ins \div 4096 = OP_TRAP /\ ins % 256 = v

(* C14: after TRAP GETC or TRAP IN, R0 holds the character read, zero-     *)
(* extended to 16 bits: a value in 0..255 for every input byte, bytes of    *)
(* 0x80 and above and the end-of-input case included; the flag reflects R0, *)
(* so it is Zero or Positive and never Negative.                            *)
C14_CharZeroExtended ==
    [][(CycleStep /\ (IsTrap(instr', TRAP_GETC) \/ IsTrap(instr', TRAP_IN)))
         => /\ reg'[R_R0] \in 0 .. 255
            /\ inbuf # << >> => reg'[R_R0] = Head(inbuf)
            /\ reg'[R_COND] = FlagOf(reg'[R_R0])
            /\ reg'[R_COND] \in {FL_ZRO, FL_POS}]_vars

---------------------------------------------------------------------------
\* the signed value of the 9-bit offset field of an instruction word
Offset9(ins) == IF ins % 512 >= 256 THEN (ins % 512) - 512 ELSE ins % 512

\* execution has started: the registers were initialised and the loop entered
Started == running \/ steps > 0

(* C15: in every state from the start of execution onward, after any       *)
(* sequence of instructions, the condition register holds exactly one of    *)
(* Positive (1), Zero (2), Negative (4); so BR with cond = 111 always       *)
(* branches and BR with cond = 000 never branches.                          *)
C15_ExactlyOneFlag ==
    /\ [](Started => reg[R_COND] \in {FL_POS, FL_ZRO, FL_NEG})
    /\ [][(CycleStep /\ instr' \div 4096 = OP_BR)
            => /\ DrOf(instr') = 7
                    => reg'[R_PC] = (reg[R_PC] + 1 + Offset9(instr')) % MEMORY_MAX
               /\ DrOf(instr') = 0
                    => reg'[R_PC] = (reg[R_PC] + 1) % MEMORY_MAX]_vars

C15_Witness ==
    /\ Executed(OP_BR) /\ instr = BRc(7, 1)
    /\ reg[R_PC] = PC_START + 3 /\ reg[R_COND] = FL_NEG

---------------------------------------------------------------------------
(* C16: loading an image with origin O modifies no cell at an address below *)
(* O and never wraps around: when the payload has more than 65536 - O       *)
(* words, the excess words are stored nowhere, and loading still succeeds.  *)
C16_LoadStaysInRange ==
    [][(pc = "load" /\ CanOpen(argv[j + 1]))
         => LET bytes == Files[argv[j + 1]]
                O == FileWord(bytes, 0)
                k == PayloadLen(bytes)
            IN  /\ \A a \in DOMAIN memory \cup DOMAIN memory' :
                       (a < O \/ a >= O + k) => Cell(memory', a) = Cell(memory, a)
                /\ DOMAIN memory' \subseteq 0 .. MEMORY_MAX - 1
                /\ j' = j + 1 /\ pc' \in {"load", "signal"} /\ diag' = diag]_vars

C16_Witness ==
    /\ pc \in {"load", "signal"} /\ j >= 1 /\ argv[j] = "high"
    /\ PayloadLen(Files.high) > MEMORY_MAX - FileWord(Files.high, 0)
    /\ Cell(memory, MEMORY_MAX - 1) = FileWord(Files.high, 1)
    /\ \A a \in DOMAIN memory : Cell(memory, a) # FileWord(Files.high, 2)

---------------------------------------------------------------------------
\* the condition mask c selects the flag f (f one of 1, 2, 4)
MaskHas(c, f) == (c \div f) % 2 = 1

\* the PC a BR word fetched at address A leaves, under the flag f
BranchTarget(ins, A, f) ==
    IF MaskHas(DrOf(ins), f)
    THEN (A + 1 + Offset9(ins)) % MEMORY_MAX
    ELSE (A + 1) % MEMORY_MAX

(* C17 as claimed: each cycle fetches the word at PC and sets PC to         *)
(* (PC + 1) mod 65536 before executing; BR with mask c and offset off at    *)
(* address A leaves PC = (A + 1 + sign-extend(off)) mod 65536 when c meets  *)
(* the current flag and (A + 1) mod 65536 otherwise, and changes no general *)
(* register, flag or memory cell.                                           *)
C17_FetchAndBranch ==
    /\ [](Looping => Fetch(Machine).reg[R_PC] = (reg[R_PC] + 1) % MEMORY_MAX)
    /\ [][CycleStep
            => /\ instr' = Cell(memory, reg[R_PC])
               /\ instr' \div 4096 = OP_BR
                    => /\ reg'[R_PC] = BranchTarget(instr', reg[R_PC], reg[R_COND])
                       /\ \A r \in (R_R0 .. R_R7) \cup {R_COND} : reg'[r] = reg[r]
                       /\ memory' = memory]_vars

(* C17, amended: each cycle fetches the word at PC and sets PC to           *)
(* (PC + 1) mod 65536 before executing, where a fetch at 0xFE00 polls the   *)
(* keyboard first and fetches the status it stores (0 or 0x8000); BR at     *)
(* address A leaves PC as claimed and changes no general register and no    *)
(* flag, and no memory cell unless A = 0xFE00, where the poll of its fetch  *)
(* may change the status and data cells.                                    *)
C17_FetchAndBranchOffStatus ==
    /\ [](Looping => Fetch(Machine).reg[R_PC] = (reg[R_PC] + 1) % MEMORY_MAX)
    /\ [][CycleStep
            => /\ reg[R_PC] # MR_KBSR => instr' = Cell(memory, reg[R_PC])
               /\ reg[R_PC] = MR_KBSR => instr' \in {0, 32768}
               /\ instr' \div 4096 = OP_BR
                    => /\ reg'[R_PC] = BranchTarget(instr', reg[R_PC], reg[R_COND])
                       /\ \A r \in (R_R0 .. R_R7) \cup {R_COND} : reg'[r] = reg[r]
                       /\ reg[R_PC] # MR_KBSR => memory' = memory
                       /\ \A a \in (DOMAIN memory \cup DOMAIN memory')
                                     \ {MR_KBSR, MR_KBDR} :
                              Cell(memory', a) = Cell(memory, a)]_vars

C17_Witness ==
    /\ Executed(OP_BR) /\ instr = BRc(4, -4)
    /\ reg[R_COND] = FL_NEG /\ reg[R_PC] = PC_START + 2

---------------------------------------------------------------------------
\* the signed value of the 6-bit offset field of an instruction word
Offset6(ins) == IF ins % 64 >= 32 THEN (ins % 64) - 64 ELSE ins % 64

IsStore(ins) == ins \div 4096 \in {OP_ST, OP_STI, OP_STR}

\* the cell a store word fetched at address A addresses
StoreAddress(ins, A, rg, mem) ==
    IF ins \div 4096 = OP_ST THEN (A + 1 + Offset9(ins)) % MEMORY_MAX
    ELSE IF ins \div 4096 = OP_STI THEN Cell(mem, (A + 1 + Offset9(ins)) % MEMORY_MAX)
    ELSE (rg[Sr1Of(ins)] + Offset6(ins)) % MEMORY_MAX

\* this step stores reg[sr] in the addressed cell and changes no other cell
WritesOneCell ==
    LET a == StoreAddress(instr', reg[R_PC], reg, memory)
    IN  /\ Cell(memory', a) = reg[DrOf(instr')]
        /\ \A b \in (DOMAIN memory \cup DOMAIN memory') \ {a} :
               Cell(memory', b) = Cell(memory, b)

(* C18 as claimed: a cycle of an instruction that is not a store, from any  *)
(* PC and any state, leaves every Memory cell unchanged; only ST, STI and   *)
(* STR write Memory, and each writes exactly the one addressed cell.        *)
C18_OnlyStoresWrite ==
    [][CycleStep
         => /\ ~IsStore(instr') => memory' = memory
            /\ IsStore(instr') => WritesOneCell]_vars

(* C18, amended: a cycle that does not read the keyboard-status address     *)
(* 0xFE00 leaves every Memory cell unchanged when its instruction is not a  *)
(* store, and writes exactly the one addressed cell when it is ST, STI or   *)
(* STR; a cycle of an instruction that is not a store and that reads 0xFE00 *)
(* (by its fetch, or by the operand or pointer read of LD, LDI or LDR)      *)
(* changes no cell other than the status and data cells.                    *)
C18_OnlyStoresWriteOffStatus ==
    [][CycleStep
         => /\ (~ReadsStatus /\ ~IsStore(instr')) => memory' = memory
            /\ (~ReadsStatus /\ IsStore(instr')) => WritesOneCell
            /\ (ReadsStatus /\ ~IsStore(instr'))
                  => \A b \in (DOMAIN memory \cup DOMAIN memory') \ {MR_KBSR, MR_KBDR} :
                         Cell(memory', b) = Cell(memory, b)]_vars

C18_Witness ==
    /\ Executed(OP_STR) /\ instr = STRo(2, 1, 3)
    /\ reg[2] = 32769 /\ Cell(memory, reg[1] + 3) = 32769
    /\ Cell(memory, reg[1] + 4) = 0

---------------------------------------------------------------------------
\* the bytes TRAP PUTS writes when the walk from address a wraps at 65536
RECURSIVE PutsWrapped(_, _)
PutsWrapped(mem, a) ==
    IF Cell(mem, a) = 0 THEN << >>
    ELSE <<Cell(mem, a) % 256>> \o PutsWrapped(mem, (a + 1) % MEMORY_MAX)

\* the same for TRAP PUTSP: the low byte, then the high byte unless it is 0
RECURSIVE PutspWrapped(_, _)
PutspWrapped(mem, a) ==
    IF Cell(mem, a) = 0 THEN << >>
    ELSE LET lo == Cell(mem, a) % 256
             hi == Cell(mem, a) \div 256
         IN  (IF hi # 0 THEN <<lo, hi>> ELSE <<lo>>)
                 \o PutspWrapped(mem, (a + 1) % MEMORY_MAX)

(* C19: TRAP PUTS and TRAP PUTSP, for every R0 and every Memory content,    *)
(* read only cells at addresses within 0..65535 (R0, R0+1, ... taken mod    *)
(* 65536), write the characters of those cells in order up to the first     *)
(* zero cell, excluded, and modify no register other than R7 and no memory  *)
(* cell.                                                                     *)
C19_StringWalkInRange ==
    [][(CycleStep /\ (IsTrap(instr', TRAP_PUTS) \/ IsTrap(instr', TRAP_PUTSP)))
         => /\ pc' = "run"
            /\ out' = out \o (IF IsTrap(instr', TRAP_PUTS)
                              THEN PutsWrapped(memory, reg[R_R0])
                              ELSE PutspWrapped(memory, reg[R_R0]))
            /\ \A r \in (R_R0 .. R_R7 - 1) \cup {R_COND} : reg'[r] = reg[r]
            /\ memory' = memory]_vars

---------------------------------------------------------------------------
(* C20: a TRAP whose vector (bits 7:0) is outside 0x20..0x25 is treated as  *)
(* a fault, as an illegal instruction is: the run is aborted in that cycle  *)
(* and no further instruction is executed.                                  *)
C20_UndefinedTrapFaults ==
    /\ [][(CycleStep /\ instr' \div 4096 = OP_TRAP
                     /\ instr' % 256 \notin TRAP_GETC .. TRAP_HALT)
            => (pc' = "aborted" /\ status' = AbortStatus)]_vars
    /\ [][pc = "aborted" => steps' = steps]_vars

====
